---- MODULE Spec2Model ----
(***************************************************************************)
(* A model of gocyto's render package: the CytoGraph that LoadCallGraph    *)
(* assembles from the edges of a call graph, its key -> ID registry, the   *)
(* package > type > function hierarchy, the node colours and classes, and  *)
(* WriteJson.                                                              *)
(*                                                                         *)
(* Strings are sequences of tokens (a token is a short piece of text that  *)
(* is never split: an identifier, a separator, a number), so formatting is *)
(* concatenation and strings.LastIndex / slicing work on the sequence.     *)
(* The empty string is <<>>.                                               *)
(***************************************************************************)
EXTENDS Integers, Sequences, FiniteSets, TLC

VARIABLES
    cg,      \* the CytoGraph: [idCounter, idMap, Nodes, Edges]
    pc,      \* "idle" | "visiting" | "loaded" | "written"
    input,   \* the edges GraphVisitEdges presents to the running load, in order
    idx,     \* how many edges of input the callback has been called on (in the
             \* registry's own specification: how many GetID calls were made)
    opts,    \* the RenderOptions of the running load
    err,     \* what the last LoadCallGraph returned: "none" (not yet), "nil"
    ret,     \* what the last direct call of a function returned: GetID's
             \* [key, isNew, id], integersToColor's [values, color]
    out,     \* what WriteJson wrote: [nodes, edges] (two arrays), or NoOut
    prev     \* the finished earlier run of the program: [input, opts, cg, out], or
             \* NoRun (where one CytoGraph is loaded several times: the finished
             \* earlier loads, [loads], each [input, opts, cg])

vars == <<cg, pc, input, idx, opts, err, ret, out, prev>>

(***************************************************************************)
(* Bounds of the model.                                                    *)
(***************************************************************************)
MaxEdges == 3      \* edges of one call graph
MaxRunEdges == 2   \* edges of the call graph that two runs are compared on
MaxCalls == 4      \* direct GetID calls
MaxValues == 3     \* values of a fingerprint
MaxLoads == 2      \* LoadCallGraph calls on one CytoGraph

(***************************************************************************)
(* The input: packages, functions (ssa.Function as callgraph.Node.Func),   *)
(* and call edges, as the analysis engine hands them over.                 *)
(***************************************************************************)
NoPkg == [path |-> <<>>, name |-> <<>>, goroot |-> FALSE, isNil |-> TRUE]
PkgA == [path |-> <<"x/a">>, name |-> <<"a">>, goroot |-> FALSE, isNil |-> FALSE]
PkgB == [path |-> <<"x/b">>, name |-> <<"b">>, goroot |-> FALSE, isNil |-> FALSE]
PkgStd == [path |-> <<"fmt">>, name |-> <<"fmt">>, goroot |-> TRUE, isNil |-> FALSE]

\* A receiver (types.Var): tname is the bare type name, ptr a pointer receiver;
\* embedded, isField and exported are the Var's own flags (a receiver variable
\* is neither embedded nor a field; it is exported when its name is).
NoRecv == [isNil |-> TRUE, tname |-> <<>>, ptr |-> FALSE, embedded |-> FALSE,
           isField |-> FALSE, exported |-> FALSE]
RecvT == [isNil |-> FALSE, tname |-> <<"T">>, ptr |-> FALSE, embedded |-> FALSE,
          isField |-> FALSE, exported |-> FALSE]
RecvPtrT == [isNil |-> FALSE, tname |-> <<"T">>, ptr |-> TRUE, embedded |-> FALSE,
             isField |-> FALSE, exported |-> FALSE]
RecvSelfU == [isNil |-> FALSE, tname |-> <<"U">>, ptr |-> FALSE, embedded |-> FALSE,
              isField |-> FALSE, exported |-> TRUE]

\* A function: anon > 0 numbers a closure inside the package-level function
\* `name` (Parent() # nil); hasObject is Object() # nil; params and results are
\* the type strings of the signature.
Fn(pkg, name, recv, anon, synthetic, hasObject, exported, params, results) ==
    [pkg |-> pkg, name |-> name, recv |-> recv, anon |-> anon, synthetic |-> synthetic,
     hasObject |-> hasObject, exported |-> exported, params |-> params, results |-> results]

TInt == <<"int">>
TStr == <<"string">>
TErr == <<"error">>

Root == Fn(NoPkg, <<"<root>">>, NoRecv, 0, TRUE, FALSE, FALSE, <<>>, <<>>)
InitA == Fn(PkgA, <<"init">>, NoRecv, 0, TRUE, FALSE, FALSE, <<>>, <<>>)
InitB == Fn(PkgB, <<"init">>, NoRecv, 0, TRUE, FALSE, FALSE, <<>>, <<>>)
MainA == Fn(PkgA, <<"Main">>, NoRecv, 0, FALSE, TRUE, TRUE, <<>>, <<>>)
MainA1 == Fn(PkgA, <<"Main">>, NoRecv, 1, FALSE, FALSE, FALSE, <<TInt>>, <<>>)
HelperA == Fn(PkgA, <<"helper">>, NoRecv, 0, FALSE, TRUE, FALSE, <<TInt, TStr>>, <<TErr>>)
MethA == Fn(PkgA, <<"M">>, RecvT, 0, FALSE, TRUE, TRUE, <<TInt>>, <<TErr>>)
MethB == Fn(PkgB, <<"M">>, RecvT, 0, FALSE, TRUE, TRUE, <<TStr>>, <<>>)
MethPtrA == Fn(PkgA, <<"N">>, RecvPtrT, 0, FALSE, TRUE, TRUE, <<>>, <<TInt>>)
MethU == Fn(PkgB, <<"Run">>, RecvSelfU, 0, FALSE, TRUE, TRUE, <<>>, <<>>)
StdM == Fn(PkgStd, <<"M">>, RecvT, 0, FALSE, TRUE, TRUE, <<TStr, TInt>>, <<TErr>>)

\* A call edge: pos is Edge.Pos() (0 is token.NoPos), desc is Edge.Description().
Call(pos, caller, callee, desc) ==
    [pos |-> pos, caller |-> caller, callee |-> callee, desc |-> desc]

DynMethod == <<"dynamic", " ", "method", " ", "call">>
StaticMethod == <<"static", " ", "method", " ", "call">>
StaticFunc == <<"static", " ", "function", " ", "call">>
GoClosure == <<"concurrent", " ", "static", " ", "function", " ", "closure", " ", "call">>

\* The edges a call graph may hold once DeleteSyntheticNodes has run: the only
\* synthetic functions left are the root and the package initializers.
\* MainA -> MethA / MethB / StdM at position 5 is one interface call site with
\* three concrete callees.
EdgeUniverse ==
    { Call(0, Root, MainA, StaticFunc),
      Call(0, InitB, InitA, StaticFunc),
      Call(3, InitB, MethU, StaticMethod),
      Call(5, MainA, MethA, DynMethod),
      Call(5, MainA, MethB, DynMethod),
      Call(5, MainA, StdM, DynMethod),
      Call(9, MainA, MethA, StaticMethod),
      Call(7, MainA, HelperA, StaticFunc),
      Call(8, HelperA, MainA, StaticFunc),
      Call(2, StdM, MethPtrA, DynMethod),
      Call(4, MainA, MainA1, GoClosure) }

\* The edges two runs are compared on: one interface call site, two callees.
RunUniverse ==
    { Call(5, MainA, MethA, DynMethod),
      Call(5, MainA, MethB, DynMethod) }

SeqsUpTo(S, n) == UNION { [1..k -> S] : k \in 0..n }

RenderOptions == [IncludeGoRoot : BOOLEAN, IncludeUnexported : BOOLEAN]

(***************************************************************************)
(* Strings: numbers formatted, searched and sliced as the code does.       *)
(***************************************************************************)
Digits == <<"0", "1", "2", "3", "4", "5", "6", "7", "8", "9", "a", "b", "c", "d", "e", "f">>

RECURSIVE FormatUint(_, _)
\* strconv.FormatUint(n, base), and the %d verb for base 10
FormatUint(n, base) ==
    IF n < base THEN <<Digits[n + 1]>>
    ELSE FormatUint(n \div base, base) \o <<Digits[(n % base) + 1]>>

\* strings.LastIndex(s, "."): the last place of the "." token, 0 when absent
\* (the code's -1)
LastIndexDot(s) ==
    LET at == { i \in 1..Len(s) : s[i] = "." }
    IN IF at = {} THEN 0 ELSE CHOOSE i \in at : \A j \in at : j <= i

\* strings.Split(s, " ")
RECURSIVE SplitSpace(_)
SplitSpace(s) ==
    LET at == { i \in 1..Len(s) : s[i] = " " }
    IN IF at = {} THEN <<s>>
       ELSE LET i == CHOOSE k \in at : \A j \in at : k <= j
            IN <<SubSeq(s, 1, i - 1)>> \o SplitSpace(SubSeq(s, i + 1, Len(s)))

(***************************************************************************)
(* The predicates on edges and nodes.                                      *)
(***************************************************************************)
isShared(edge) == edge.caller.pkg.isNil

isSynthetic(edge) == edge.callee.synthetic

\* build.Import(path).Goroot: a property of the package path
inGoRoot(node) == node.pkg.goroot

isUnexported(node) == node.hasObject /\ ~node.exported

isGlobal(node) == node.anon = 0

(***************************************************************************)
(* The registry.                                                           *)
(***************************************************************************)
NoID == <<>>

NewCytoGraph == [idCounter |-> 0, idMap |-> <<>>, Nodes |-> <<>>, Edges |-> <<>>]

\* f with key k set to v, k new or not (a Go map assignment)
MapPut(f, k, v) == [x \in (DOMAIN f) \cup {k} |-> IF x = k THEN v ELSE f[x]]

\* GetID with the counter's increment forgotten
GetID_NoIncrement(c, fullName, isNode) ==
    IF fullName \in DOMAIN c.idMap
    THEN [c |-> c, isNew |-> FALSE, id |-> c.idMap[fullName]]
    ELSE LET counter == c.idCounter
             id == <<IF isNode THEN "n" ELSE "e">> \o FormatUint(counter, 16)
         IN [c |-> [c EXCEPT !.idCounter = counter,
                             !.idMap = MapPut(c.idMap, fullName, id)],
             isNew |-> TRUE, id |-> id]

\* GetID returns (isNew, id) and leaves the graph as c
GetID(c, fullName, isNode) ==
    IF fullName \in DOMAIN c.idMap
    THEN [c |-> c, isNew |-> FALSE, id |-> c.idMap[fullName]]
    ELSE LET counter == c.idCounter + 1
             id == <<IF isNode THEN "n" ELSE "e">> \o FormatUint(counter, 16)
         IN [c |-> [c EXCEPT !.idCounter = counter,
                             !.idMap = MapPut(c.idMap, fullName, id)],
             isNew |-> TRUE, id |-> id]

\* Function.RelString(from) with from the function's own package: the package
\* qualifier is suppressed. A closure is "<parent>$<n>", a method
\* "(T).name" or "(*T).name", a package-level function its bare name.
nodeFullName(node) ==
    IF node.anon > 0 THEN node.name \o <<"$">> \o FormatUint(node.anon, 10)
    ELSE IF ~node.recv.isNil
         THEN <<"(">> \o (IF node.recv.ptr THEN <<"*">> ELSE <<>>) \o node.recv.tname
              \o <<")", ".">> \o node.name
         ELSE node.name

(***************************************************************************)
(* Colours. A uint32 is the pair [hi, lo] of its 16-bit halves. A colour   *)
(* is one integer 0..65535, its place on the gradient; blending is linear. *)
(***************************************************************************)
\* the bytes of a token (the strings that are hashed: type strings, package names)
TokenBytes(tok) ==
    CASE tok = "int" -> <<105, 110, 116>>
      [] tok = "string" -> <<115, 116, 114, 105, 110, 103>>
      [] tok = "error" -> <<101, 114, 114, 111, 114>>
      [] tok = "x/a" -> <<120, 47, 97>>
      [] tok = "x/b" -> <<120, 47, 98>>
      [] tok = "fmt" -> <<102, 109, 116>>
      [] tok = "a" -> <<97>>
      [] tok = "b" -> <<98>>
      [] tok = "T" -> <<84>>
      [] tok = "U" -> <<85>>
      [] tok = "." -> <<46>>
      [] tok = "*" -> <<42>>

RECURSIVE StringBytes(_)
StringBytes(s) == IF s = <<>> THEN <<>> ELSE TokenBytes(Head(s)) \o StringBytes(Tail(s))

RECURSIVE Xor(_, _, _)
\* a XOR b on `bits` bits
Xor(a, b, bits) ==
    IF bits = 0 THEN 0
    ELSE 2 * Xor(a \div 2, b \div 2, bits - 1) + ((a + b) % 2)

RECURSIVE Fnv1(_, _)
\* hash/fnv's 32-bit FNV-1 from state h: per byte, h *= 16777619 (2^24 + 403,
\* modulo 2^32), then h ^= byte
Fnv1(h, bytes) ==
    IF bytes = <<>> THEN h
    ELSE LET lo403 == h.lo * 403
             lo == lo403 % 65536
             hi == (h.hi * 403 + lo403 \div 65536 + (h.lo % 256) * 256) % 65536
         IN Fnv1([hi |-> hi, lo |-> (lo \div 256) * 256 + Xor(lo % 256, Head(bytes), 8)],
                 Tail(bytes))

\* fnv.New32() starts from the offset basis 2166136261 = 0x811C9DC5
stringToIntHash(v) == Fnv1([hi |-> 33052, lo |-> 40389], StringBytes(v))

\* the hashes of a tuple of types
tupleToIntHashes(tup) == [i \in 1..Len(tup) |-> stringToIntHash(tup[i])]

\* "#3D4CC4"
defaultColor == 15692

\* keypoints.GetInterpolatedColorFor(p / (2^32 - 1)): the gradient at p's place
GetInterpolatedColorFor(p) == p.hi

\* c1.BlendHcl(c2, t): from c1 towards c2 by t, t in tenths
BlendHcl(c1, c2, tenths) == c1 + ((c2 - c1) * tenths) \div 10

RECURSIVE MixFrom(_, _)
\* the loop of integersToColor over the values left, mix so far
MixFrom(mix, values) ==
    IF values = <<>> THEN mix
    ELSE MixFrom(BlendHcl(GetInterpolatedColorFor(Head(values)), mix, 3), Tail(values))

integersToColor(values) ==
    IF Len(values) = 0 THEN defaultColor
    ELSE IF Len(values) = 1 THEN GetInterpolatedColorFor(values[1])
    ELSE MixFrom(0, values)

\* Color.Hex(): "#" and the channels in hexadecimal, zero-padded
ColorHex(c) ==
    LET h == FormatUint(c, 16)
    IN <<"#">> \o [i \in 1..(4 - Len(h)) |-> "0"] \o h

signatureToColorHex(node) ==
    LET params == integersToColor(tupleToIntHashes(node.params))
        results == integersToColor(tupleToIntHashes(node.results))
    IN ColorHex(BlendHcl(params, results, 5))

(***************************************************************************)
(* Nodes and edges of the model.                                           *)
(***************************************************************************)
\* node.Func.Signature.Recv(): the receiver variable, whose Pkg() is the
\* package the method is declared in
SignatureRecv(node) ==
    [isNil |-> node.recv.isNil, tname |-> node.recv.tname, ptr |-> node.recv.ptr,
     embedded |-> node.recv.embedded, isField |-> node.recv.isField,
     exported |-> node.recv.exported, pkg |-> node.pkg]

\* recv.Type().String(): the type, qualified by its package path
RecvTypeString(recv) ==
    (IF recv.ptr THEN <<"*">> ELSE <<>>) \o recv.pkg.path \o <<".">> \o recv.tname

\* ProcessPkg with the store of the new node forgotten
ProcessPkg_NoStore(c, pkg) ==
    LET fullName == <<"pkg ~ ">> \o pkg.path
        r == GetID(c, fullName, TRUE)
    IN [c |-> r.c, id |-> r.id]

ProcessPkg(c, pkg) ==
    LET fullName == <<"pkg ~ ">> \o pkg.path
        r == GetID(c, fullName, TRUE)
        label == pkg.name
        cNode == [Data |-> [Id |-> r.id, Label |-> label, Description |-> <<pkg.path>>,
                            Parent |-> NoID,
                            Color |-> ColorHex(integersToColor(<<stringToIntHash(label)>>))],
                  Classes |-> <<"package">>]
    IN IF ~r.isNew THEN [c |-> r.c, id |-> r.id]
       ELSE [c |-> [r.c EXCEPT !.Nodes = MapPut(r.c.Nodes, r.id, cNode)], id |-> r.id]

\* ProcessRecv that leaves the type node without a parent
ProcessRecv_NoParent(c, recv) ==
    LET fullName == <<"recv ~ ">> \o recv.pkg.path \o <<" ~ ">> \o RecvTypeString(recv)
        r == GetID(c, fullName, TRUE)
        full == RecvTypeString(recv)
        cNode == [Data |-> [Id |-> r.id, Label |-> full, Description |-> <<>>,
                            Parent |-> NoID,
                            Color |-> ColorHex(integersToColor(<<stringToIntHash(full)>>))],
                  Classes |-> <<"type">>]
    IN IF ~r.isNew THEN [c |-> r.c, id |-> r.id]
       ELSE [c |-> [r.c EXCEPT !.Nodes = MapPut(r.c.Nodes, r.id, cNode)], id |-> r.id]

ProcessRecv(c, recv) ==
    LET fullName == <<"recv ~ ">> \o recv.pkg.path \o <<" ~ ">> \o RecvTypeString(recv)
        r == GetID(c, fullName, TRUE)
        p == ProcessPkg(r.c, recv.pkg)
        full == RecvTypeString(recv)
        last == LastIndexDot(full)
        label == IF last > 0 THEN SubSeq(full, last + 1, Len(full)) ELSE full
        classes == <<"type">>
                   \o (IF recv.embedded THEN <<"embedded">> ELSE <<>>)
                   \o (IF recv.isField THEN <<"field">> ELSE <<>>)
                   \o (IF ~recv.exported THEN <<"unexported2">> ELSE <<>>)
        cNode == [Data |-> [Id |-> r.id, Label |-> label, Description |-> <<>>,
                            Parent |-> p.id,
                            Color |-> ColorHex(integersToColor(<<stringToIntHash(full)>>))],
                  Classes |-> classes]
    IN IF ~r.isNew THEN [c |-> r.c, id |-> r.id]
       ELSE [c |-> [p.c EXCEPT !.Nodes = MapPut(p.c.Nodes, r.id, cNode)], id |-> r.id]

\* ProcessNode that builds and stores the node whether the key is new or not
ProcessNode_Overwrite(c, node) ==
    LET funcName == nodeFullName(node)
        fullName == <<"func ~ ">> \o funcName
        r == GetID(c, fullName, TRUE)
        p == ProcessPkg(r.c, node.pkg)
        last == LastIndexDot(funcName)
        label == IF last > 0 THEN SubSeq(funcName, last, Len(funcName)) ELSE funcName
        recv == SignatureRecv(node)
        q == IF ~recv.isNil THEN ProcessRecv(p.c, recv) ELSE p
        classes == (IF inGoRoot(node) THEN <<"go_root">> ELSE <<>>)
                   \o (IF isGlobal(node) THEN <<"global">> ELSE <<>>)
                   \o (IF isUnexported(node) THEN <<"unexported">> ELSE <<>>)
        cNode == [Data |-> [Id |-> r.id, Label |-> label, Description |-> <<>>,
                            Parent |-> q.id, Color |-> signatureToColorHex(node)],
                  Classes |-> classes]
    IN [c |-> [q.c EXCEPT !.Nodes = MapPut(q.c.Nodes, r.id, cNode)], id |-> r.id]

ProcessNode(c, node) ==
    LET funcName == nodeFullName(node)
        fullName == <<"func ~ ">> \o funcName
        r == GetID(c, fullName, TRUE)
        p == ProcessPkg(r.c, node.pkg)
        last == LastIndexDot(funcName)
        label == IF last > 0 THEN SubSeq(funcName, last, Len(funcName)) ELSE funcName
        recv == SignatureRecv(node)
        q == IF ~recv.isNil THEN ProcessRecv(p.c, recv) ELSE p
        classes == (IF inGoRoot(node) THEN <<"go_root">> ELSE <<>>)
                   \o (IF isGlobal(node) THEN <<"global">> ELSE <<>>)
                   \o (IF isUnexported(node) THEN <<"unexported">> ELSE <<>>)
        cNode == [Data |-> [Id |-> r.id, Label |-> label, Description |-> <<>>,
                            Parent |-> q.id, Color |-> signatureToColorHex(node)],
                  Classes |-> classes]
    IN IF ~r.isNew THEN [c |-> r.c, id |-> r.id]
       ELSE [c |-> [q.c EXCEPT !.Nodes = MapPut(q.c.Nodes, r.id, cNode)], id |-> r.id]

\* the key ProcessEdge files an edge under
EdgeFullName(edge) ==
    <<"call @">> \o FormatUint(edge.pos, 10) \o <<" ~ ">>
    \o nodeFullName(edge.caller) \o <<" -> ">> \o nodeFullName(edge.callee)

ProcessEdge(c, edge) ==
    LET fullName == EdgeFullName(edge)
        r == GetID(c, fullName, TRUE)
        caller == ProcessNode(r.c, edge.caller)
        callee == ProcessNode(caller.c, edge.callee)
        cEdge == [Data |-> [Id |-> r.id, Source |-> caller.id, Target |-> callee.id],
                  Classes |-> SplitSpace(edge.desc)]
    IN IF ~r.isNew THEN [c |-> r.c, id |-> r.id]
       ELSE [c |-> [callee.c EXCEPT !.Edges = MapPut(callee.c.Edges, r.id, cEdge)],
             id |-> r.id]

\* the callback LoadCallGraph hands to GraphVisitEdges: the graph after it
\* has been called on edge
VisitEdge(c, o, edge) ==
    IF isSynthetic(edge) \/ isShared(edge) THEN c
    ELSE IF ~o.IncludeGoRoot /\ inGoRoot(edge.callee) THEN c
    ELSE IF ~o.IncludeUnexported /\ isUnexported(edge.callee) THEN c
    ELSE ProcessEdge(c, edge).c

(***************************************************************************)
(* The program.                                                            *)
(***************************************************************************)
NoOut == [written |-> FALSE, nodes |-> <<>>, edges |-> <<>>]
NoRun == [ran |-> FALSE]
NoRet == [called |-> FALSE]

Init ==
    /\ cg = NewCytoGraph
    /\ pc = "idle"
    /\ input = <<>>
    /\ idx = 0
    /\ opts = [IncludeGoRoot |-> FALSE, IncludeUnexported |-> FALSE]
    /\ err = "none"
    /\ ret = NoRet
    /\ out = NoOut
    /\ prev = NoRun

\* LoadCallGraph(g, o) is called: DeleteSyntheticNodes has run and
\* GraphVisitEdges starts presenting g's edges, in the order `g`
LoadCallGraphFrom(graphs) ==
    /\ pc = "idle"
    /\ \E g \in graphs, o \in RenderOptions :
         /\ input' = g
         /\ opts' = o
    /\ idx' = 0
    /\ err' = "none"
    /\ pc' = "visiting"
    /\ UNCHANGED <<cg, ret, out, prev>>

LoadCallGraph == LoadCallGraphFrom(SeqsUpTo(EdgeUniverse, MaxEdges))

\* GraphVisitEdges calls the callback on the next edge
Visit ==
    /\ pc = "visiting"
    /\ idx < Len(input)
    /\ cg' = VisitEdge(cg, opts, input[idx + 1])
    /\ idx' = idx + 1
    /\ UNCHANGED <<pc, input, opts, err, ret, out, prev>>

\* GraphVisitEdges stops at an edge and LoadCallGraph returns nil all the same
Return_Early ==
    /\ pc = "visiting"
    /\ err' = "nil"
    /\ pc' = "loaded"
    /\ UNCHANGED <<cg, input, idx, opts, ret, out, prev>>

\* GraphVisitEdges has presented every edge; the callback never returns an
\* error, so LoadCallGraph returns nil
Return ==
    /\ pc = "visiting"
    /\ idx = Len(input)
    /\ err' = "nil"
    /\ pc' = "loaded"
    /\ UNCHANGED <<cg, input, idx, opts, ret, out, prev>>

Next == LoadCallGraph \/ Visit \/ Return

Spec == Init /\ [][Next]_vars

(***************************************************************************)
(* The registry on its own: GetID called directly, with any key and kind.  *)
(***************************************************************************)
KeyUniverse ==
    { <<"pkg ~ ", "x/a">>, <<"func ~ ", "Main">>, <<"func ~ ", "(", "T", ")", ".", "M">>,
      <<"call @", "5", " ~ ", "Main", " -> ", "(", "T", ")", ".", "M">> }

GetIDCall ==
    /\ pc = "idle"
    /\ idx < MaxCalls
    /\ \E key \in KeyUniverse, isNode \in BOOLEAN :
         LET r == GetID(cg, key, isNode)
         IN /\ cg' = r.c
            /\ ret' = [called |-> TRUE, key |-> key, isNode |-> isNode,
                       isNew |-> r.isNew, id |-> r.id]
    /\ idx' = idx + 1
    /\ UNCHANGED <<pc, input, opts, err, out, prev>>

NextGetID == GetIDCall

SpecGetID == Init /\ [][NextGetID]_vars

\* strconv.ParseUint(s, 16), the inverse of FormatUint(n, 16)
RECURSIVE ParseHex(_)
ParseHex(s) ==
    IF s = <<>> THEN 0
    ELSE LET d == s[Len(s)]
             v == CHOOSE i \in 0..15 : Digits[i + 1] = d
         IN 16 * ParseHex(SubSeq(s, 1, Len(s) - 1)) + v

\* the counter value an ID was generated from
IdCounterValue(id) == ParseHex(Tail(id))

IdMapInjective(c) ==
    \A k1, k2 \in DOMAIN c.idMap : c.idMap[k1] = c.idMap[k2] => k1 = k2

\* what one GetID call must do
C6_Step ==
    ret'.called /\ ret' # ret =>
        /\ \A k \in DOMAIN cg.idMap : k \in DOMAIN cg'.idMap /\ cg'.idMap[k] = cg.idMap[k]
        /\ ret'.key \in DOMAIN cg'.idMap /\ cg'.idMap[ret'.key] = ret'.id
        /\ Cardinality({ k \in DOMAIN cg'.idMap : cg'.idMap[k] = ret'.id }) = 1
        /\ IF ret'.key \in DOMAIN cg.idMap
           THEN /\ ~ret'.isNew
                /\ ret'.id = cg.idMap[ret'.key]
                /\ cg'.idCounter = cg.idCounter
                /\ cg'.idMap = cg.idMap
           ELSE /\ ret'.isNew
                /\ \A k \in DOMAIN cg.idMap :
                     IdCounterValue(cg.idMap[k]) < IdCounterValue(ret'.id)

\* C6: after any sequence of GetID calls the key -> ID table is injective and
\* every ID returned is the image of exactly one key; resolving a present key
\* returns its ID with isNew = false and changes neither idCounter nor the
\* table; resolving a new key returns isNew = true and an ID whose counter
\* value is greater than that of every ID allocated before.
C6_RegistryIdempotentBijection ==
    /\ [](IdMapInjective(cg))
    /\ [][C6_Step]_vars

\* a present key has been resolved again after two allocations, one of a node
\* and one of an edge
C6_Witness ==
    /\ ret.called /\ ~ret.isNew
    /\ cg.idCounter >= 2
    /\ \E k1, k2 \in DOMAIN cg.idMap : Head(cg.idMap[k1]) = "n" /\ Head(cg.idMap[k2]) = "e"

(***************************************************************************)
(* What the claims speak of, read off the input and the stored model.      *)
(***************************************************************************)
Range(f) == { f[x] : x \in DOMAIN f }

\* the edges the callback has been called on so far
Presented == { input[i] : i \in 1..idx }

\* the filtering policy as stated: all four conditions
Admitted(e, o) ==
    /\ ~e.callee.synthetic
    /\ ~e.caller.pkg.isNil
    /\ (~e.callee.pkg.goroot \/ o.IncludeGoRoot)
    /\ (~(e.callee.hasObject /\ ~e.callee.exported) \/ o.IncludeUnexported)

AdmittedEdges == { e \in Presented : Admitted(e, opts) }

\* the kind of the entity an ID was given to: the head of its key
KindOf(c, id) ==
    LET k == CHOOSE key \in DOMAIN c.idMap : c.idMap[key] = id IN Head(k)

IsPackageNode(c, id) == id \in DOMAIN c.Nodes /\ KindOf(c, id) = "pkg ~ "
IsTypeNode(c, id) == id \in DOMAIN c.Nodes /\ KindOf(c, id) = "recv ~ "
IsFunctionNode(c, id) == id \in DOMAIN c.Nodes /\ KindOf(c, id) = "func ~ "

\* id is the package node of package pkg
IsPackageNodeOf(c, id, pkg) ==
    /\ id \in DOMAIN c.Nodes
    /\ c.Nodes[id].Data.Description = <<pkg.path>>
    /\ c.Nodes[id].Data.Parent = NoID
    /\ c.Nodes[id].Classes = <<"package">>

\* id is a type node under the package node of pkg
IsTypeNodeIn(c, id, pkg) ==
    /\ id \in DOMAIN c.Nodes
    /\ "type" \in Range(c.Nodes[id].Classes)
    /\ IsPackageNodeOf(c, c.Nodes[id].Data.Parent, pkg)

\* the node id sits where function f belongs: under f's receiver type, itself
\* under f's package, or directly under f's package
HierarchyOf(c, id, f) ==
    /\ id \in DOMAIN c.Nodes
    /\ IF ~f.recv.isNil
       THEN IsTypeNodeIn(c, c.Nodes[id].Data.Parent, f.pkg)
       ELSE IsPackageNodeOf(c, c.Nodes[id].Data.Parent, f.pkg)

\* the short name of f, which its node's label ends with
ShortName(f) == f.name \o (IF f.anon > 0 THEN <<"$">> \o FormatUint(f.anon, 10) ELSE <<>>)

EndsWith(s, t) == Len(s) >= Len(t) /\ SubSeq(s, Len(s) - Len(t) + 1, Len(s)) = t

\* the node id is the function node of f: f's name, in f's place
IsNodeOf(c, id, f) ==
    /\ HierarchyOf(c, id, f)
    /\ EndsWith(c.Nodes[id].Data.Label, ShortName(f))

\* some stored edge runs from the node of e's caller to the node of e's callee
Represented(c, e) ==
    \E id \in DOMAIN c.Edges :
        /\ IsNodeOf(c, c.Edges[id].Data.Source, e.caller)
        /\ IsNodeOf(c, c.Edges[id].Data.Target, e.callee)

\* C2: an input edge is represented by a stored edge exactly when its callee
\* is not synthetic, its caller has a package, its callee is outside the root
\* library or IncludeGoRoot is set, and its callee is not unexported or
\* IncludeUnexported is set.
C2_FilteringCorrect ==
    \A e \in Presented : Represented(cg, e) <=> Admitted(e, opts)

\* the semantic entities the admitted edges refer to: functions by package and
\* qualified name, receiver types by package path and type string, packages by path
AdmittedFuncs == { e.caller : e \in AdmittedEdges } \cup { e.callee : e \in AdmittedEdges }
FuncEntities == { <<"func", f.pkg.path, nodeFullName(f)>> : f \in AdmittedFuncs }
TypeEntities ==
    { <<"recv", f.pkg.path, RecvTypeString(SignatureRecv(f))>> :
        f \in { g \in AdmittedFuncs : ~g.recv.isNil } }
PkgEntities == { <<"pkg", f.pkg.path>> : f \in AdmittedFuncs }

\* C3: the number of stored nodes is the number of distinct functions,
\* receiver types and packages that the admitted edges refer to.
C3_NodeDedup ==
    Cardinality(DOMAIN cg.Nodes)
        = Cardinality(FuncEntities) + Cardinality(TypeEntities) + Cardinality(PkgEntities)

\* C4: for every admitted edge, the nodes its stored edge names as source and
\* target sit where the caller and the callee belong: under the receiver's type
\* node, itself under the declaring package's node, or directly under the
\* declaring package's node.
C4_HierarchyCorrect ==
    \A e \in AdmittedEdges :
        /\ EdgeFullName(e) \in DOMAIN cg.idMap
        /\ cg.idMap[EdgeFullName(e)] \in DOMAIN cg.Edges
        /\ LET se == cg.Edges[cg.idMap[EdgeFullName(e)]]
           IN /\ HierarchyOf(cg, se.Data.Source, e.caller)
              /\ HierarchyOf(cg, se.Data.Target, e.callee)

\* the call sites of the admitted edges: position, caller, callee
CallSites == { <<e.pos, e.caller, e.callee>> : e \in AdmittedEdges }

\* C5: the admitted edges are stored one per (position, caller, callee), and
\* edges of one caller and callee share their source and their target.
C5_EdgeDedupByCallSite ==
    /\ Cardinality(DOMAIN cg.Edges) = Cardinality(CallSites)
    /\ \A e1, e2 \in AdmittedEdges :
         (e1.caller = e2.caller /\ e1.callee = e2.callee) =>
            /\ EdgeFullName(e1) \in DOMAIN cg.idMap /\ EdgeFullName(e2) \in DOMAIN cg.idMap
            /\ LET s1 == cg.Edges[cg.idMap[EdgeFullName(e1)]]
                   s2 == cg.Edges[cg.idMap[EdgeFullName(e2)]]
               IN s1.Data.Source = s2.Data.Source /\ s1.Data.Target = s2.Data.Target

\* the parent relation of c is a forest of depth two: packages on top, types
\* under packages, functions under types or packages
ParentForest(c) ==
    \A id \in DOMAIN c.Nodes :
        LET parent == c.Nodes[id].Data.Parent
        IN /\ parent # NoID => parent \in DOMAIN c.Nodes
           /\ IsPackageNode(c, id) => parent = NoID
           /\ IsTypeNode(c, id) => IsPackageNode(c, parent)
           /\ IsFunctionNode(c, id) =>
                /\ IsTypeNode(c, parent) \/ IsPackageNode(c, parent)
                /\ parent # id
                /\ \/ c.Nodes[parent].Data.Parent = NoID
                   \/ c.Nodes[c.Nodes[parent].Data.Parent].Data.Parent = NoID
           /\ IsPackageNode(c, id) \/ IsTypeNode(c, id) \/ IsFunctionNode(c, id)

\* C8: after a completed LoadCallGraph every parent is a stored node, package
\* nodes have no parent, a type node's parent is a package node, a function
\* node's parent is a type node or a package node, and every chain of parents
\* ends at a package node within two steps.
C8_ParentForest == pc = "loaded" => ParentForest(cg)

\* two functions that call each other are stored, with a method under its type
C8_Witness ==
    /\ pc = "loaded"
    /\ \E e1, e2 \in Range(cg.Edges) :
         /\ e1.Data.Source = e2.Data.Target /\ e1.Data.Target = e2.Data.Source
         /\ e1.Data.Source # e1.Data.Target
    /\ \E id \in DOMAIN cg.Nodes :
         IsFunctionNode(cg, id) /\ IsTypeNode(cg, cg.Nodes[id].Data.Parent)

\* C9: every stored edge's ID starts with "e", every stored node's with "n",
\* and no ID is both a node's and an edge's.
C9_IdNamespaces ==
    /\ \A id \in DOMAIN cg.Edges : Head(id) = "e"
    /\ \A id \in DOMAIN cg.Nodes : Head(id) = "n"
    /\ DOMAIN cg.Nodes \cap DOMAIN cg.Edges = {}

\* the tags prescribed for the node of function f, of receiver r, of a package
FunctionTags(f) ==
    (IF f.anon = 0 THEN {"global"} ELSE {})
    \cup (IF f.hasObject /\ ~f.exported THEN {"unexported"} ELSE {})
    \cup (IF f.pkg.goroot THEN {"root-library"} ELSE {})
TypeTags(r) ==
    {"type"} \cup (IF r.embedded THEN {"embedded"} ELSE {})
    \cup (IF r.isField THEN {"field"} ELSE {})
    \cup (IF ~r.exported THEN {"unexported"} ELSE {})

\* C10: the classes of every stored node are the tags prescribed for its
\* kind: global / unexported / root-library for a function, type / embedded /
\* field / unexported for a receiver type, package for a package.
C10_NodeTags ==
    \A f \in AdmittedFuncs :
        LET fid == cg.idMap[<<"func ~ ">> \o nodeFullName(f)]
            pid == cg.idMap[<<"pkg ~ ">> \o f.pkg.path]
        IN /\ IsNodeOf(cg, fid, f) => Range(cg.Nodes[fid].Classes) = FunctionTags(f)
           /\ Range(cg.Nodes[pid].Classes) = {"package"}
           /\ (~f.recv.isNil /\ IsNodeOf(cg, fid, f)) =>
                Range(cg.Nodes[cg.Nodes[fid].Data.Parent].Classes) = TypeTags(f.recv)

(***************************************************************************)
(* Two runs of the program: load, write, then a fresh CytoGraph loads the  *)
(* same edges (in any order) with the same options and writes again.       *)
(***************************************************************************)
\* the orders a Go map with key set S may be ranged over
Orderings(S) ==
    { q \in [1..Cardinality(S) -> S] : \A i, j \in DOMAIN q : q[i] = q[j] => i = j }

\* the sequences holding the elements of s in another order
Reorderings(s) == { [i \in DOMAIN s |-> s[q[i]]] : q \in Orderings(DOMAIN s) }

\* WriteJson: the nodes, then the edges, each in the order the map is ranged
\* over, are encoded as the two arrays of the document
WriteJson ==
    /\ pc = "loaded"
    /\ err = "nil"    \* main's check(err, ...) exits before any output otherwise
    /\ \E qn \in Orderings(DOMAIN cg.Nodes), qe \in Orderings(DOMAIN cg.Edges) :
         out' = [written |-> TRUE,
                 nodes |-> [i \in DOMAIN qn |-> cg.Nodes[qn[i]]],
                 edges |-> [i \in DOMAIN qe |-> cg.Edges[qe[i]]]]
    /\ pc' = "written"
    /\ UNCHANGED <<cg, input, idx, opts, err, ret, prev>>

LoadCallGraphRun ==
    /\ ~prev.ran
    /\ LoadCallGraphFrom(SeqsUpTo(RunUniverse, MaxRunEdges))

\* the program is started again: main builds a new CytoGraph
NewRun ==
    /\ pc = "written"
    /\ ~prev.ran
    /\ prev' = [ran |-> TRUE, input |-> input, opts |-> opts, cg |-> cg, out |-> out]
    /\ cg' = NewCytoGraph
    /\ pc' = "idle"
    /\ input' = <<>>
    /\ idx' = 0
    /\ err' = "none"
    /\ out' = NoOut
    /\ UNCHANGED <<opts, ret>>

\* the second run loads the first run's edges, in any order, same options
LoadCallGraphAgain ==
    /\ pc = "idle"
    /\ prev.ran
    /\ input' \in Reorderings(prev.input)
    /\ opts' = prev.opts
    /\ idx' = 0
    /\ err' = "none"
    /\ pc' = "visiting"
    /\ UNCHANGED <<cg, ret, out, prev>>

NextRuns == LoadCallGraphRun \/ Visit \/ Return \/ WriteJson \/ NewRun \/ LoadCallGraphAgain

SpecRuns == Init /\ [][NextRuns]_vars

\* C1: two runs over the same edge sequence with the same options write the
\* same bytes: the same nodes and edges in the same order.
C1_OutputDeterministic ==
    (prev.ran /\ pc = "written" /\ input = prev.input /\ opts = prev.opts)
        => (out.nodes = prev.out.nodes /\ out.edges = prev.out.edges)

\* f renames the nodes of c1 to the nodes of c2 and g its edges to those of
\* c2, keeping every field but the IDs
Renames(c1, c2, f, g) ==
    /\ \A i, j \in DOMAIN f : f[i] = f[j] => i = j
    /\ \A i, j \in DOMAIN g : g[i] = g[j] => i = j
    /\ \A id \in DOMAIN c1.Nodes :
         LET n1 == c1.Nodes[id]
             n2 == c2.Nodes[f[id]]
         IN /\ n1.Data.Label = n2.Data.Label
            /\ n1.Data.Description = n2.Data.Description
            /\ n1.Data.Color = n2.Data.Color
            /\ n1.Classes = n2.Classes
            /\ IF n1.Data.Parent = NoID THEN n2.Data.Parent = NoID
               ELSE n2.Data.Parent = f[n1.Data.Parent]
    /\ \A id \in DOMAIN c1.Edges :
         LET e1 == c1.Edges[id]
             e2 == c2.Edges[g[id]]
         IN /\ e2.Data.Source = f[e1.Data.Source]
            /\ e2.Data.Target = f[e1.Data.Target]
            /\ e1.Classes = e2.Classes

EqualUpToRenaming(c1, c2) ==
    /\ Cardinality(DOMAIN c1.Nodes) = Cardinality(DOMAIN c2.Nodes)
    /\ Cardinality(DOMAIN c1.Edges) = Cardinality(DOMAIN c2.Edges)
    /\ \E f \in [DOMAIN c1.Nodes -> DOMAIN c2.Nodes], g \in [DOMAIN c1.Edges -> DOMAIN c2.Edges] :
         Renames(c1, c2, f, g)

\* C7: the models assembled from two orderings of the same edges under the
\* same options are equal up to a renaming of the IDs.
C7_OrderIndependent ==
    (prev.ran /\ pc = "loaded" /\ opts = prev.opts /\ input \in Reorderings(prev.input))
        => EqualUpToRenaming(prev.cg, cg)

(***************************************************************************)
(* The colour of a fingerprint on its own: integersToColor called          *)
(* directly, with any values.                                              *)
(***************************************************************************)
\* the hashes integersToColor is called with: those of the type strings of
\* the functions' signatures, and the two ends of uint32
HashUniverse ==
    { stringToIntHash(t) : t \in {TInt, TStr, TErr} }
        \cup { [hi |-> 0, lo |-> 0], [hi |-> 65535, lo |-> 65535] }

IntegersToColorCall ==
    /\ pc = "idle"
    /\ \E values \in SeqsUpTo(HashUniverse, MaxValues) :
         ret' = [called |-> TRUE, values |-> values, color |-> integersToColor(values)]
    /\ UNCHANGED <<cg, pc, input, idx, opts, err, out, prev>>

NextColor == IntegersToColorCall

SpecColor == Init /\ [][NextColor]_vars

RECURSIVE SumGradient(_)
\* the gradient colours of the values, added up
SumGradient(values) ==
    IF values = <<>> THEN 0
    ELSE GetInterpolatedColorFor(Head(values)) + SumGradient(Tail(values))

\* C11: integersToColor gives the same colour for every order of the same
\* values, the blend weighing every value equally (the mean of the values'
\* gradient colours); no values give defaultColor and a single value gives
\* its gradient colour.
C11_ColorOrderIndependent ==
    ret.called =>
        /\ \A p \in Reorderings(ret.values) : integersToColor(p) = ret.color
        /\ Len(ret.values) = 0 => ret.color = defaultColor
        /\ Len(ret.values) = 1 => ret.color = GetInterpolatedColorFor(ret.values[1])
        /\ Len(ret.values) > 1 =>
             ret.color = SumGradient(ret.values) \div Len(ret.values)

(***************************************************************************)
(* One run of the program: main loads the call graph into a new CytoGraph, *)
(* checks the error returned, and writes the document.                     *)
(***************************************************************************)
NextMain == LoadCallGraphRun \/ Visit \/ Return \/ WriteJson

SpecMain == Init /\ [][NextMain]_vars

\* C12 as stated: loading an empty call graph returns an error, and nothing
\* is written for it.
C12_InputErrorsFatal ==
    input = <<>> =>
        /\ pc = "loaded" => err = "error"
        /\ ~out.written

\* C12, amended: LoadCallGraph returns nil for every call graph, the empty
\* one included, after the callback has seen every edge; what is written,
\* after that return only, is exactly the nodes and edges of the model, so
\* an empty call graph gives a document without nodes and edges.
C12_LoadNeverFails ==
    /\ pc \in {"loaded", "written"} => (err = "nil" /\ idx = Len(input))
    /\ out.written =>
         /\ pc = "written"
         /\ Len(out.nodes) = Cardinality(DOMAIN cg.Nodes)
         /\ Len(out.edges) = Cardinality(DOMAIN cg.Edges)
         /\ Range(out.nodes) = Range(cg.Nodes)
         /\ Range(out.edges) = Range(cg.Edges)
         /\ input = <<>> => (out.nodes = <<>> /\ out.edges = <<>>)

C12_Witness ==
    /\ pc = "written"
    /\ input = <<>>
    /\ err = "nil"
    /\ out.written /\ out.nodes = <<>> /\ out.edges = <<>>

(***************************************************************************)
(* One CytoGraph loaded several times ("add more call graphs if you        *)
(* like"), with any of a few call graphs and any options each time.        *)
(***************************************************************************)
\* the call graphs loaded: empty; one call; one call site with two callees of
\* equal name; a root-library caller and a root-library callee; an unexported
\* callee that calls back; a synthetic edge before a second call site
ReloadGraphs ==
    { <<>>,
      <<Call(5, MainA, MethA, DynMethod)>>,
      <<Call(5, MainA, MethB, DynMethod), Call(5, MainA, MethA, DynMethod)>>,
      <<Call(2, StdM, MethPtrA, DynMethod), Call(5, MainA, StdM, DynMethod)>>,
      <<Call(7, MainA, HelperA, StaticFunc), Call(8, HelperA, MainA, StaticFunc)>>,
      <<Call(0, Root, MainA, StaticFunc), Call(9, MainA, MethA, StaticMethod)>> }

\* the loads this CytoGraph has finished before the running (or last) one
EarlierLoads == IF prev.ran THEN prev.loads ELSE <<>>

\* the first load of the new CytoGraph
LoadCallGraphFirst ==
    /\ ~prev.ran
    /\ LoadCallGraphFrom(ReloadGraphs)

\* LoadCallGraph is called once more on the same CytoGraph
LoadCallGraphMore ==
    /\ pc = "loaded"
    /\ Len(EarlierLoads) + 1 < MaxLoads
    /\ prev' = [ran |-> TRUE,
                loads |-> Append(EarlierLoads, [input |-> input, opts |-> opts, cg |-> cg])]
    /\ \E g \in ReloadGraphs, o \in RenderOptions :
         /\ input' = g
         /\ opts' = o
    /\ idx' = 0
    /\ err' = "none"
    /\ pc' = "visiting"
    /\ UNCHANGED <<cg, ret, out>>

NextReload == LoadCallGraphFirst \/ LoadCallGraphMore \/ Visit \/ Return

SpecReload == Init /\ [][NextReload]_vars

\* every key keeps its ID and every stored node and edge stays, field by field
C13_Step ==
    /\ \A k \in DOMAIN cg.idMap : k \in DOMAIN cg'.idMap /\ cg'.idMap[k] = cg.idMap[k]
    /\ \A id \in DOMAIN cg.Nodes : id \in DOMAIN cg'.Nodes /\ cg'.Nodes[id] = cg.Nodes[id]
    /\ \A id \in DOMAIN cg.Edges : id \in DOMAIN cg'.Edges /\ cg'.Edges[id] = cg.Edges[id]

\* a finished load of a graph and options that an earlier load of this
\* CytoGraph had, left the CytoGraph as it found it
C13_SameAgain ==
    (pc = "loaded" /\ prev.ran) =>
        \A i \in DOMAIN prev.loads :
            (prev.loads[i].input = input /\ prev.loads[i].opts = opts)
                => cg = prev.loads[Len(prev.loads)].cg

\* C13: over any sequence of loads of one CytoGraph, a key once mapped keeps
\* its ID, a node or edge once stored is never removed and none of its fields
\* changes, and loading a graph again with the same options changes nothing.
C13_GrowOnly == [](C13_SameAgain) /\ [][C13_Step]_vars

\* the same graph was loaded again with the same options, onto stored edges
C13_Witness ==
    /\ pc = "loaded"
    /\ prev.ran
    /\ prev.loads[Len(prev.loads)].input = input
    /\ prev.loads[Len(prev.loads)].opts = opts
    /\ Len(input) > 1
    /\ DOMAIN cg.Edges # {}

\* the function node that ProcessNode made (or found) for f
FuncNodeOf(c, f) == c.idMap[<<"func ~ ">> \o nodeFullName(f)]

\* the callback passes e on to ProcessEdge under options o
PassesFilters(e, o) ==
    /\ ~(isSynthetic(e) \/ isShared(e))
    /\ (o.IncludeGoRoot \/ ~inGoRoot(e.callee))
    /\ (o.IncludeUnexported \/ ~isUnexported(e.callee))

\* C14: with both options false, a presented edge whose caller is unexported
\* or of the root library and whose callee passes the filters is stored, with
\* a function node for that caller as its source; and every stored edge's
\* target is a node of an exported function outside the root library, so
\* nodes tagged go_root or unexported are edge sources only.
C14_CalleeOnlyFilters ==
    (pc = "loaded" /\ ~opts.IncludeGoRoot /\ ~opts.IncludeUnexported) =>
        /\ \A e \in Presented :
             ((inGoRoot(e.caller) \/ isUnexported(e.caller)) /\ PassesFilters(e, opts)) =>
                /\ EdgeFullName(e) \in DOMAIN cg.idMap
                /\ cg.idMap[EdgeFullName(e)] \in DOMAIN cg.Edges
                /\ (<<"func ~ ">> \o nodeFullName(e.caller)) \in DOMAIN cg.idMap
                /\ IsFunctionNode(cg, FuncNodeOf(cg, e.caller))
                /\ cg.Edges[cg.idMap[EdgeFullName(e)]].Data.Source = FuncNodeOf(cg, e.caller)
        /\ \A id \in DOMAIN cg.Edges :
             LET target == cg.Nodes[cg.Edges[id].Data.Target]
             IN /\ "go_root" \notin Range(target.Classes)
                /\ "unexported" \notin Range(target.Classes)

\* C15: after a finished load, the first or a later one, idCounter is the
\* number of keys, which is the number of stored nodes plus stored edges;
\* every ID of the table is the key of exactly one stored node or edge; each
\* node and edge is filed under its own Id; every edge runs between stored
\* function nodes.
C15_Accounting ==
    pc = "loaded" =>
        /\ cg.idCounter = Cardinality(DOMAIN cg.idMap)
        /\ Cardinality(DOMAIN cg.idMap)
             = Cardinality(DOMAIN cg.Nodes) + Cardinality(DOMAIN cg.Edges)
        /\ \A k \in DOMAIN cg.idMap :
             (cg.idMap[k] \in DOMAIN cg.Nodes) # (cg.idMap[k] \in DOMAIN cg.Edges)
        /\ \A id \in DOMAIN cg.Nodes : cg.Nodes[id].Data.Id = id
        /\ \A id \in DOMAIN cg.Edges :
             /\ cg.Edges[id].Data.Id = id
             /\ IsFunctionNode(cg, cg.Edges[id].Data.Source)
             /\ IsFunctionNode(cg, cg.Edges[id].Data.Target)

\* a later load has finished and added to what the earlier one stored
C15_Witness ==
    /\ pc = "loaded"
    /\ prev.ran
    /\ cg # prev.loads[Len(prev.loads)].cg
    /\ DOMAIN prev.loads[Len(prev.loads)].cg.Edges # {}
    /\ Cardinality(DOMAIN cg.Edges) > Cardinality(DOMAIN prev.loads[Len(prev.loads)].cg.Edges)

====
